---- MODULE Spec2Model ----
(***************************************************************************)
(* The interceptor session of mcp-interceptor: one                         *)
(* MCPInterceptorDurableObject (target, ledger `logs`, viewer registry     *)
(* `monitors`) together with the Worker route app.all("/proxy/:id/*") that *)
(* drives it, both in src/backend/src/mcpInterceptorDurableObject.ts.      *)
(*                                                                         *)
(* The Durable Object runs one event at a time; addLog, clearLogs,         *)
(* broadcastToMonitors, handleWebSocketUpgrade and webSocketClose contain  *)
(* no await, and the storage awaits of setTargetUrl / getTargetUrl hold    *)
(* the object's input gate, so each of them is one action.  The proxy      *)
(* handler runs in the Worker and is cut at its awaits on the object and   *)
(* on the target.                                                          *)
(***************************************************************************)
EXTENDS Integers, Sequences, FiniteSets, TLC

(***************************************************************************)
(* Bounds of the model.                                                    *)
(***************************************************************************)
\* The ledger's capacity.  The code keeps the last 1000 entries
\* (mcpInterceptorDurableObject.ts:171-172); the model is parametric in the
\* capacity and is checked at a small value so that eviction happens.
Cap == 2
\* Number of proxied calls (pipeline instances), concurrently in flight.
MaxCalls == 2
\* Number of observer connections ever opened.
MaxSockets == 2
\* Number of clearLogs calls.
MaxClears == 1
\* Number of suspensions followed by a revival of the actor.
MaxRevivals == 2
\* Number of setTargetUrl calls.
MaxSets == 2

\* Number of getInfo calls.
MaxInfos == 1
\* Number of messages observers send to the object.
MaxMessages == 2
\* Number of observer connections of each of the other sessions.
MaxOtherSockets == 1
\* Length of the viewer page's list of entries.
MaxViewLen == 4
\* Number of WebSockets the viewer page creates.
MaxConns == 4

Calls == 1..MaxCalls
Conns == 1..MaxConns
Sockets == 1..MaxSockets

(***************************************************************************)
(* Values.                                                                 *)
(***************************************************************************)
\* JavaScript null (targetUrl: string | null, line 23).
Null == [kind |-> "null"]

\* A string offered as a target address, by its syntactic parts.
Str(scheme, host) == [kind |-> "str", scheme |-> scheme, host |-> host]

\* The addresses the model offers to setTargetUrl: two well-formed absolute
\* URLs, a string without a scheme ("not a url"), a special scheme without a
\* host ("https://") and the empty string.
TargetInputs ==
    { Str("https", "example.test/mcp"), Str("http", "other.test"),
      Str("", "not a url"), Str("https", ""), Str("", "") }

\* Schemes for which the URL parser requires a host.
SpecialSchemes == {"http", "https", "ws", "wss", "ftp"}

\* new URL(targetUrl) with no base (line 67): it throws unless the string has
\* a scheme, and, for a special scheme, a non-empty host.
URLThrows(s) ==
    \/ s.scheme = ""
    \/ s.scheme \in SpecialSchemes /\ s.host = ""

\* A test for the empty string only, in the place of !targetUrl.
FalsyEmptyOnly(t) == t = Str("", "")

\* JavaScript !targetUrl (lines 53, 85, 103, 337): null and "" are falsy.
Falsy(t) == t = Null \/ t = Str("", "")

\* An identifier generator that returns the same value at every draw.
randomUUIDConstant(n) == "uuid"

\* crypto.randomUUID() (line 346), the n-th value drawn.
randomUUID(n) == "uuid" \o ToString(n)

\* url.pathname.split("/")[2] of /monitor/<id> (line 139): one session.
InterceptorId == "abc12345"

\* The ids of two more sessions, and the object the namespace gives for a
\* name before any call has reached it (fields of lines 21-23, empty
\* storage).
OtherIds == {"1f0e2d3c", "9a8b7c6d"}
AllIds == {InterceptorId} \cup OtherIds
FreshObject == [targetUrl |-> Null, stored |-> Null, logs |-> << >>, monitors |-> << >>]

\* The wire messages (lines 154-157, 176-179, 114-116).
\* A replay that lists the ledger newest first.
InitialLogsNewestFirst(ledger) ==
    [type |-> "initial_logs",
     logs |-> [k \in DOMAIN ledger |-> ledger[Len(ledger) + 1 - k]]]
InitialLogs(ledger) == [type |-> "initial_logs", logs |-> ledger]
NewLog(log) == [type |-> "new_log", log |-> log]
LogsCleared == [type |-> "logs_cleared"]

\* What the target can do with a forwarded request (fetch, line 402):
\* the fetch throws, or it answers; the answer's body is text or not
\* readable as text.
TargetReplies ==
    { [threw |-> TRUE, status |-> 0, statusText |-> "", body |-> "", readable |-> FALSE],
      [threw |-> FALSE, status |-> 200, statusText |-> "OK", body |-> "pong", readable |-> TRUE],
      [threw |-> FALSE, status |-> 404, statusText |-> "Not Found", body |-> "bytes", readable |-> FALSE] }

NoReply == [threw |-> FALSE, status |-> 0, statusText |-> "", body |-> "", readable |-> FALSE]
NoResponse == [kind |-> "none"]
NoMeta == [kind |-> "none"]
NoRequest == [kind |-> "none"]
NoSnap == [len |-> 0, rev |-> 0, clr |-> 0]

VARIABLES
    \* the Durable Object instance (lines 21-23)
    monitors,     \* Map<WebSocket, MonitorSession> in insertion order
    logs,         \* InterceptorLog[]
    targetUrl,    \* string | null
    \* the runtime around it
    stored,       \* ctx.storage "targetUrl"
    wsState,      \* per socket: "none", "open", "closing" (peer gone), "closed",
                  \* "erroring" (transport broken), "errored" (error event given)
    attachment,   \* per socket: serializeAttachment data
    inbox,        \* per socket: the messages delivered to the observer
    clock,        \* Date.now()
    nextSock,     \* the next WebSocketPair
    \* the proxy handler, per call
    pc,           \* position of the handler
    requestId,    \* its requestId
    target,       \* the targetUrl it read at the gate
    reply,        \* what the target did
    response,     \* the Response returned to the caller
    nextUUID,     \* number of randomUUID() draws
    \* history
    appended,     \* every entry addLog pushed, in order, each with the
                  \* number of revivals and of clears before it
    base,         \* Len(appended) when the ledger was last emptied
    snapAt,       \* per socket: Len(appended), revivals and clears at its
                  \* initial_logs
    dropped,      \* the sockets ever deleted from the registry
    outbound,     \* the requests issued to the target
    lastSet,      \* the argument and the result of the last setTargetUrl,
                  \* and the number of revivals before it
    nClears, nRevivals, nSets,
    loads,        \* number of storage.get("targetUrl") made by getTargetUrl
                  \* and getInfo since the actor was last constructed
    info,         \* what the last getInfo returned
    nInfos,
    heard,        \* the observer messages webSocketMessage has handled
    found,        \* per socket: whether webSocketClose found it registered
    \* the other objects of the namespace MCP_INTERCEPTOR
    others,       \* per interceptor id: target, stored target, ledger and
                  \* registry of the object of that name
    \* the Worker's proxy handler, on one request taken by itself
    request,      \* c.req.raw
    loggedRequest,  \* the requestLog built from it
    proxyRequest, \* the Request built for the target
    \* POST /api/validate-mcp
    validated,    \* the addresses for which it has answered valid: true
    \* the viewer page (InterceptorViewer)
    viewLogs,     \* its state logs
    groups,       \* what groupedLogs() returned at its last render
    page,         \* whether the component is mounted
    connState,    \* per WebSocket the page created: its state
    wsRef,        \* wsRef.current: the socket created last, 0 for null
    timers        \* the pending setTimeout(connectWebSocket, 3000) calls

vars == << monitors, logs, targetUrl, stored, wsState, attachment, inbox, clock,
           nextSock, pc, requestId, target, reply, response, nextUUID,
           appended, base, snapAt, dropped, outbound, lastSet, nClears, nRevivals,
           nSets, loads, info, nInfos, heard, found, others, request,
           loggedRequest, proxyRequest, validated, viewLogs, groups, page,
           connState, wsRef, timers >>

doVars == << monitors, logs, targetUrl >>
wsVars == << wsState, attachment, inbox, clock, nextSock, snapAt, dropped >>
callVars == << pc, requestId, target, reply, response, nextUUID, outbound >>
cfgVars == << stored, lastSet, nSets >>
clientVars == << page, connState, wsRef, timers >>
edgeVars == << request, loggedRequest, proxyRequest, validated, viewLogs, groups,
              clientVars >>
auxVars == << info, nInfos, heard, found, others, edgeVars >>
systemVars == << doVars, wsVars, callVars, cfgVars, appended, base, nClears,
                 nRevivals, loads, info, nInfos, heard, found, others >>

(***************************************************************************)
(* Helpers on sequences.                                                   *)
(***************************************************************************)
\* slice(0, n) in the place of slice(-n): the oldest entries are kept.
SliceFirst(arr, n) ==
    IF Len(arr) <= n THEN arr ELSE SubSeq(arr, 1, n)

\* Array.prototype.slice(-n) (line 172).
SliceLast(arr, n) ==
    IF Len(arr) <= n THEN arr ELSE SubSeq(arr, Len(arr) - n + 1, Len(arr))

\* Map.prototype.delete (lines 190, 222): the other keys keep their order.
MapDelete(map, socket) == SelectSeq(map, LAMBDA m : m.socket # socket)

MapKeys(map) == { map[i].socket : i \in 1..Len(map) }

(***************************************************************************)
(* The Durable Object.                                                     *)
(***************************************************************************)
\* constructor: fields (lines 21-23).
Init ==
    /\ monitors = << >>
    /\ logs = << >>
    /\ targetUrl = Null
    /\ stored = Null
    /\ wsState = [s \in Sockets |-> "none"]
    /\ attachment = [s \in Sockets |-> NoMeta]
    /\ inbox = [s \in Sockets |-> << >>]
    /\ clock = 1
    /\ nextSock = 1
    /\ pc = [p \in Calls |-> "received"]
    /\ requestId = [p \in Calls |-> ""]
    /\ target = [p \in Calls |-> Null]
    /\ reply = [p \in Calls |-> NoReply]
    /\ response = [p \in Calls |-> NoResponse]
    /\ nextUUID = 1
    /\ appended = << >>
    /\ base = 0
    /\ snapAt = [s \in Sockets |-> NoSnap]
    /\ dropped = {}
    /\ outbound = {}
    /\ lastSet = NoResponse
    /\ nClears = 0
    /\ nRevivals = 0
    /\ nSets = 0
    /\ loads = 0
    /\ info = NoResponse
    /\ request = NoRequest
    /\ loggedRequest = NoRequest
    /\ proxyRequest = NoRequest
    /\ validated = {}
    /\ viewLogs = << >>
    /\ groups = << >>
    /\ page = "new"
    /\ connState = [c \in Conns |-> "none"]
    /\ wsRef = 0
    /\ timers = 0
    /\ nInfos = 0
    /\ heard = << >>
    /\ found = [s \in Sockets |-> "unasked"]
    /\ others = [id \in OtherIds |-> FreshObject]

\* forEach whose catch deletes the socket and leaves the loop.
RECURSIVE forEachSendBreak(_, _, _)
forEachSendBreak(todo, acc, messageString) ==
    IF todo = << >> THEN acc
    ELSE LET socket == Head(todo).socket IN
         IF wsState[socket] = "open"
         THEN forEachSendBreak(Tail(todo),
                               [acc EXCEPT !.inbox[socket] = Append(@, messageString)],
                               messageString)
         ELSE [acc EXCEPT !.monitors = MapDelete(@, socket)]

\* forEach without the try/catch: the exception of send leaves the loop and
\* broadcastToMonitors.
RECURSIVE forEachSendNoCatch(_, _, _)
forEachSendNoCatch(todo, acc, messageString) ==
    IF todo = << >> THEN acc
    ELSE LET socket == Head(todo).socket IN
         IF wsState[socket] = "open"
         THEN forEachSendNoCatch(Tail(todo),
                                 [acc EXCEPT !.inbox[socket] = Append(@, messageString)],
                                 messageString)
         ELSE [acc EXCEPT !.threw = TRUE]

\* One iteration of monitors.forEach (lines 185-192) over the entries not
\* yet visited: socket.send throws on a socket that is not open, the catch
\* deletes that socket, and the iteration goes on.
RECURSIVE forEachSend(_, _, _)
forEachSend(todo, acc, messageString) ==
    IF todo = << >> THEN acc
    ELSE LET socket == Head(todo).socket IN
         IF wsState[socket] = "open"
         THEN forEachSend(Tail(todo),
                          [acc EXCEPT !.inbox[socket] = Append(@, messageString)],
                          messageString)
         ELSE forEachSend(Tail(todo),
                          [acc EXCEPT !.monitors = MapDelete(@, socket)],
                          messageString)

\* broadcastToMonitors (lines 182-193).
broadcastToMonitors(message) ==
    forEachSend(monitors,
                [monitors |-> monitors, inbox |-> inbox, threw |-> FALSE],
                message)

\* addLog without its broadcast.
addLogNoBroadcast(log) ==
    LET pushed == Append(logs, log)
        kept == IF Len(pushed) > Cap THEN SliceLast(pushed, Cap) ELSE pushed
    IN [logs |-> kept, monitors |-> monitors, inbox |-> inbox, threw |-> FALSE]

\* addLog with unshift in the place of push.
addLogUnshift(log) ==
    LET pushed == << log >> \o logs
        kept == IF Len(pushed) > Cap THEN SliceLast(pushed, Cap) ELSE pushed
        sent == broadcastToMonitors(NewLog(log))
    IN [logs |-> kept, monitors |-> sent.monitors, inbox |-> sent.inbox,
        threw |-> sent.threw]

\* addLog (lines 166-180): the state of the object after it.
addLog(log) ==
    LET pushed == Append(logs, log)
        kept == IF Len(pushed) > Cap THEN SliceLast(pushed, Cap) ELSE pushed
        sent == broadcastToMonitors(NewLog(log))
    IN [logs |-> kept, monitors |-> sent.monitors, inbox |-> sent.inbox,
        threw |-> sent.threw]

\* clearLogs without its broadcast.
clearedNoBroadcast ==
    [logs |-> << >>, monitors |-> monitors, inbox |-> inbox]

\* clearLogs (lines 110-117), reached from DELETE /api/interceptors/:id/logs:
\* the state of the object after it.
cleared ==
    LET sent == broadcastToMonitors(LogsCleared)
    IN [logs |-> << >>, monitors |-> sent.monitors, inbox |-> sent.inbox]

clearLogs ==
    /\ nClears < MaxClears
    /\ logs' = cleared.logs
    /\ monitors' = cleared.monitors
    /\ inbox' = cleared.inbox
    /\ dropped' = dropped \cup (MapKeys(monitors) \ MapKeys(cleared.monitors))
    /\ base' = Len(appended)
    /\ nClears' = nClears + 1
    /\ UNCHANGED << targetUrl, wsState, attachment, clock, nextSock, snapAt,
                    callVars, cfgVars, appended, nRevivals >>
    /\ UNCHANGED << auxVars, loads >>

\* A registration that empties the ledger once it has replayed it.
handleWebSocketUpgradeDrains ==
    /\ nextSock <= MaxSockets
    /\ LET server == nextSock
           sessionData == [interceptorId |-> InterceptorId, connectedAt |-> clock]
       IN /\ wsState' = [wsState EXCEPT ![server] = "open"]
          /\ monitors' = Append(monitors, [socket |-> server, session |-> sessionData])
          /\ attachment' = [attachment EXCEPT ![server] = sessionData]
          /\ inbox' = [inbox EXCEPT ![server] = Append(@, InitialLogs(logs))]
          /\ snapAt' = [snapAt EXCEPT ![server] =
                 [len |-> Len(appended), rev |-> nRevivals, clr |-> nClears]]
    /\ logs' = << >>
    /\ nextSock' = nextSock + 1
    /\ clock' = clock + 1
    /\ UNCHANGED << targetUrl, dropped, callVars, cfgVars, appended, base,
                    nClears, nRevivals >>
    /\ UNCHANGED << auxVars, loads >>

\* handleWebSocketUpgrade (lines 128-164).
handleWebSocketUpgrade ==
    /\ nextSock <= MaxSockets
    /\ LET server == nextSock
           sessionData == [interceptorId |-> InterceptorId, connectedAt |-> clock]
       IN /\ wsState' = [wsState EXCEPT ![server] = "open"]
          /\ monitors' = Append(monitors, [socket |-> server, session |-> sessionData])
          /\ attachment' = [attachment EXCEPT ![server] = sessionData]
          /\ inbox' = [inbox EXCEPT ![server] = Append(@, InitialLogs(logs))]
          /\ snapAt' = [snapAt EXCEPT ![server] =
                 [len |-> Len(appended), rev |-> nRevivals, clr |-> nClears]]
    /\ nextSock' = nextSock + 1
    /\ clock' = clock + 1
    /\ UNCHANGED << logs, targetUrl, dropped, callVars, cfgVars, appended, base,
                    nClears, nRevivals >>
    /\ UNCHANGED << auxVars, loads >>

\* handleWebSocketUpgrade (lines 128-164) when server.send (line 153)
\* throws, which no try covers: the socket is accepted (line 135), in the
\* registry (line 147) and has its attachment (line 150); the exception
\* leaves the method and no socket is returned to the observer.  Later
\* sends on the server end succeed or throw.
handleWebSocketUpgradeThrows(after) ==
    /\ nextSock <= MaxSockets
    /\ LET server == nextSock
           sessionData == [interceptorId |-> InterceptorId, connectedAt |-> clock]
       IN /\ wsState' = [wsState EXCEPT ![server] = after]
          /\ monitors' = Append(monitors, [socket |-> server, session |-> sessionData])
          /\ attachment' = [attachment EXCEPT ![server] = sessionData]
          /\ snapAt' = [snapAt EXCEPT ![server] =
                 [len |-> Len(appended), rev |-> nRevivals, clr |-> nClears]]
    /\ nextSock' = nextSock + 1
    /\ clock' = clock + 1
    /\ UNCHANGED << logs, targetUrl, inbox, dropped, callVars, cfgVars, appended,
                    base, nClears, nRevivals >>
    /\ UNCHANGED << auxVars, loads >>

\* The observer's end goes away: from now on send throws on the server end,
\* and the runtime will deliver webSocketClose.
PeerClose(s) ==
    /\ wsState[s] = "open"
    /\ wsState' = [wsState EXCEPT ![s] = "closing"]
    /\ UNCHANGED << doVars, attachment, inbox, clock, nextSock, snapAt, dropped,
                    callVars, cfgVars, appended, base, nClears, nRevivals >>
    /\ UNCHANGED << auxVars, loads >>

\* A webSocketClose that empties the registry.
webSocketCloseAll(ws) ==
    /\ wsState[ws] = "closing"
    /\ monitors' = << >>
    /\ wsState' = [wsState EXCEPT ![ws] = "closed"]
    /\ dropped' = dropped \cup MapKeys(monitors) \cup {ws}
    /\ found' = [found EXCEPT ![ws] =
                   IF ws \in MapKeys(monitors) THEN "registered" ELSE "absent"]
    /\ UNCHANGED << logs, targetUrl, attachment, inbox, clock, nextSock, snapAt,
                    callVars, cfgVars, appended, base, nClears, nRevivals >>
    /\ UNCHANGED << info, nInfos, heard, others, loads, edgeVars >>

\* webSocketClose (lines 213-226).
webSocketClose(ws) ==
    /\ wsState[ws] = "closing"
    /\ monitors' = MapDelete(monitors, ws)
    /\ wsState' = [wsState EXCEPT ![ws] = "closed"]
    /\ dropped' = dropped \cup {ws}
    /\ found' = [found EXCEPT ![ws] =
                   IF ws \in MapKeys(monitors) THEN "registered" ELSE "absent"]
    /\ UNCHANGED << logs, targetUrl, attachment, inbox, clock, nextSock, snapAt,
                    callVars, cfgVars, appended, base, nClears, nRevivals >>
    /\ UNCHANGED << info, nInfos, heard, others, loads, edgeVars >>

\* The observer's transport breaks without a close: from now on send throws
\* on the server end, and the runtime has an error event to give.
TransportError(s) ==
    /\ wsState[s] = "open"
    /\ wsState' = [wsState EXCEPT ![s] = "erroring"]
    /\ UNCHANGED << doVars, attachment, inbox, clock, nextSock, snapAt, dropped,
                    callVars, cfgVars, appended, base, nClears, nRevivals >>
    /\ UNCHANGED << auxVars, loads >>

\* The runtime gives the error event of a socket to the object.  The class
\* (lines 20-227) has webSocketMessage and webSocketClose and no
\* webSocketError: nothing of the object runs.
ErrorDelivered(s) ==
    /\ wsState[s] = "erroring"
    /\ wsState' = [wsState EXCEPT ![s] = "errored"]
    /\ UNCHANGED << doVars, attachment, inbox, clock, nextSock, snapAt, dropped,
                    callVars, cfgVars, appended, base, nClears, nRevivals >>
    /\ UNCHANGED << auxVars, loads >>

\* What an observer can send: text that is JSON, text that is not, and
\* bytes that decode to JSON.
ObserverMessages ==
    { [binary |-> FALSE, data |-> "{}"], [binary |-> FALSE, data |-> "not json"],
      [binary |-> TRUE, data |-> "{}"] }

\* JSON.parse(messageString) (line 204) throws on text that is not JSON.
JSONParseThrows(messageString) == messageString # "{}"

\* A handler that closes the connection of a message it cannot parse.
webSocketMessageStrict(ws, message) ==
    /\ wsState[ws] = "open"
    /\ Len(heard) < MaxMessages
    /\ heard' = Append(heard, [socket |-> ws, message |-> message])
    /\ IF JSONParseThrows(message.data)
       THEN /\ wsState' = [wsState EXCEPT ![ws] = "closed"]
            /\ monitors' = MapDelete(monitors, ws)
       ELSE UNCHANGED << wsState, monitors >>
    /\ UNCHANGED << logs, targetUrl, attachment, inbox, clock, nextSock, snapAt,
                    dropped, callVars, cfgVars, appended, base, nClears,
                    nRevivals, loads, info, nInfos, found, others, edgeVars >>

\* webSocketMessage (lines 195-211): the message is decoded and parsed
\* inside a try whose catch logs; nothing else is done with it.
webSocketMessage(ws, message) ==
    /\ wsState[ws] = "open"
    /\ Len(heard) < MaxMessages
    /\ heard' = Append(heard, [socket |-> ws, message |-> message])
    /\ UNCHANGED << doVars, wsVars, callVars, cfgVars, appended, base, nClears,
                    nRevivals, loads, info, nInfos, found, others, edgeVars >>

\* setTargetUrl with the assignment ahead of the validation.
setTargetUrlAssignFirst(address, putFails) ==
    /\ nSets < MaxSets
    /\ nSets' = nSets + 1
    /\ targetUrl' = address
    /\ IF URLThrows(address) \/ putFails
       THEN /\ lastSet' = [address |-> address, result |->
                              [success |-> FALSE, error |-> "Invalid URL format"],
                              rev |-> nRevivals]
            /\ UNCHANGED stored
       ELSE /\ lastSet' = [address |-> address, result |-> [success |-> TRUE],
                               rev |-> nRevivals]
            /\ stored' = address
    /\ UNCHANGED << monitors, logs, wsVars, callVars, appended, base,
                    nClears, nRevivals >>
    /\ UNCHANGED << auxVars, loads >>

\* setTargetUrl without the storage.put: the target is set in memory only.
setTargetUrlNoPut(address, putFails) ==
    /\ nSets < MaxSets
    /\ nSets' = nSets + 1
    /\ IF URLThrows(address)
       THEN /\ lastSet' = [address |-> address, result |->
                              [success |-> FALSE, error |-> "Invalid URL format"],
                              rev |-> nRevivals]
            /\ UNCHANGED targetUrl
       ELSE /\ targetUrl' = address
            /\ lastSet' = [address |-> address, result |-> [success |-> TRUE],
                               rev |-> nRevivals]
    /\ UNCHANGED << stored, monitors, logs, wsVars, callVars, appended, base,
                    nClears, nRevivals >>
    /\ UNCHANGED << auxVars, loads >>

\* setTargetUrl (lines 62-76).  storage.put can reject; the catch turns any
\* exception into the failure result.
setTargetUrl(address, putFails) ==
    /\ nSets < MaxSets
    /\ nSets' = nSets + 1
    /\ IF URLThrows(address)
       THEN /\ lastSet' = [address |-> address, result |->
                              [success |-> FALSE, error |-> "Invalid URL format"],
                              rev |-> nRevivals]
            /\ UNCHANGED << targetUrl, stored >>
       ELSE /\ targetUrl' = address
            /\ IF putFails
               THEN /\ lastSet' = [address |-> address, result |->
                              [success |-> FALSE, error |-> "Invalid URL format"],
                              rev |-> nRevivals]
                    /\ UNCHANGED stored
               ELSE /\ lastSet' = [address |-> address, result |-> [success |-> TRUE],
                               rev |-> nRevivals]
                    /\ stored' = address
    /\ UNCHANGED << monitors, logs, wsVars, callVars, appended, base,
                    nClears, nRevivals >>
    /\ UNCHANGED << auxVars, loads >>

\* The orders in which the runtime can list a set of sockets.
Orderings(S) ==
    { f \in [1..Cardinality(S) -> S] : \A x \in S : \E i \in DOMAIN f : f[i] = x }

\* ctx.getWebSockets() (line 33): the sockets the object accepted and has
\* not closed; the server end of a socket whose peer went away is closed by
\* webSocketClose (line 225).
getWebSockets == { s \in Sockets : wsState[s] \in {"open", "closing"} }

\* A constructor that does not restore the registry from the sockets.
ReviveNoRestore ==
    /\ nRevivals < MaxRevivals
    /\ nRevivals' = nRevivals + 1
    /\ monitors' = << >>
    /\ logs' = << >>
    /\ targetUrl' = IF Falsy(stored) THEN Null ELSE stored
    /\ base' = Len(appended)
    /\ loads' = 0
    /\ UNCHANGED << wsVars, callVars, cfgVars, appended, nClears >>
    /\ UNCHANGED auxVars

\* A constructor that greets every restored socket with initial_logs again.
ReviveResendsInitial ==
    /\ nRevivals < MaxRevivals
    /\ nRevivals' = nRevivals + 1
    /\ \E existingWebSockets \in Orderings(getWebSockets) :
         monitors' = [i \in DOMAIN existingWebSockets |->
                        [socket |-> existingWebSockets[i],
                         session |-> attachment[existingWebSockets[i]]]]
    /\ inbox' = [s \in Sockets |->
                   IF wsState[s] = "open"
                   THEN Append(inbox[s], InitialLogs(<< >>)) ELSE inbox[s]]
    /\ logs' = << >>
    /\ targetUrl' = IF Falsy(stored) THEN Null ELSE stored
    /\ base' = Len(appended)
    /\ loads' = 0
    /\ UNCHANGED << wsState, attachment, clock, nextSock, snapAt, dropped,
                    callVars, cfgVars, appended, nClears >>
    /\ UNCHANGED auxVars

\* The actor is suspended and later constructed again (lines 21-48): fresh
\* fields, the registry rebuilt from ctx.getWebSockets() in whatever order
\* the runtime lists them, the target loaded by initializeFromStorage
\* (lines 50-59), whose storage read holds the input gate.
Revive ==
    /\ nRevivals < MaxRevivals
    /\ nRevivals' = nRevivals + 1
    /\ \E existingWebSockets \in Orderings(getWebSockets) :
         monitors' = [i \in DOMAIN existingWebSockets |->
                        [socket |-> existingWebSockets[i],
                         session |-> attachment[existingWebSockets[i]]]]
    /\ logs' = << >>
    /\ targetUrl' = IF Falsy(stored) THEN Null ELSE stored
    /\ base' = Len(appended)
    /\ loads' = 0
    /\ UNCHANGED << wsVars, callVars, cfgVars, appended, nClears >>
    /\ UNCHANGED auxVars

(***************************************************************************)
(* The proxy handler, app.all("/proxy/:id/*") (lines 328-454).             *)
(***************************************************************************)
\* The inbound request of every call: a POST with a text body.
Inbound == [method |-> "POST", url |-> "/proxy/abc12345/", body |-> "ping"]

\* How a call of the stub durableObject.logRequest can end for the Worker:
\* the method ran and returned; the call was rejected before the method ran;
\* the method ran and the call was rejected afterwards.
RpcOutcomes == {"ok", "undelivered", "lost"}

\* requestLog (lines 371-379).
requestLog(p) ==
    [id |-> requestId[p], direction |-> "request", method |-> Inbound.method,
     url |-> Inbound.url, body |-> Inbound.body]

\* A response entry whose id is not made from the call's requestId.
responseLogOwnId(p) ==
    [id |-> randomUUID(nextUUID) \o "-response", direction |-> "response",
     status |-> reply[p].status, statusText |-> reply[p].statusText,
     body |-> IF reply[p].readable THEN reply[p].body ELSE "[Binary data]"]

\* responseLog (lines 410-426).
responseLog(p) ==
    [id |-> requestId[p] \o "-response", direction |-> "response",
     status |-> reply[p].status, statusText |-> reply[p].statusText,
     body |-> IF reply[p].readable THEN reply[p].body ELSE "[Binary data]"]

\* errorLog (lines 433-444); the details are the message of the exception
\* that reached the catch: the fetch's, or the rejected logRequest's.
errorLog(p) ==
    [id |-> requestId[p] \o "-error", direction |-> "response",
     status |-> 500, statusText |-> "Proxy Error",
     body |-> "{error:Failed to proxy request,details:"
              \o (IF reply[p].threw THEN "fetch failed" ELSE "rpc failed") \o "}"]

\* logRequest (lines 97-99) as the Durable Object runs it, when it runs it.
logRequest(log, outcome) ==
    IF outcome = "undelivered"
    THEN UNCHANGED << logs, monitors, inbox, dropped, appended >>
    ELSE LET after == addLog(log) IN
         /\ logs' = after.logs
         /\ monitors' = after.monitors
         /\ inbox' = after.inbox
         /\ dropped' = dropped \cup (MapKeys(monitors) \ MapKeys(after.monitors))
         /\ appended' = Append(appended,
                [log |-> log, rev |-> nRevivals, clr |-> nClears])

\* Whether await durableObject.logRequest(log) throws in the handler.
logRequestRejects(log, outcome) == outcome # "ok" \/ addLog(log).threw

\* getTargetUrl (lines 102-107): the value it returns.
getTargetUrl == IF Falsy(targetUrl) THEN (IF Falsy(stored) THEN Null ELSE stored)
                ELSE targetUrl

\* The number of storage.get calls the lazy load (lines 85-87, 103-105)
\* makes: one whenever the target in memory is falsy.
storageGets == IF Falsy(targetUrl) THEN 1 ELSE 0

\* getInfo (lines 79-94), reached from GET /api/interceptors/:id.
getInfo ==
    /\ nInfos < MaxInfos
    /\ nInfos' = nInfos + 1
    /\ targetUrl' = getTargetUrl
    /\ loads' = loads + storageGets
    /\ info' = [targetUrl |-> getTargetUrl, monitorCount |-> Len(monitors),
                logCount |-> Len(logs)]
    /\ UNCHANGED << monitors, logs, wsVars, callVars, cfgVars, appended, base,
                    nClears, nRevivals, heard, found, others, edgeVars >>

\* c.json({error: ...}, 400) (lines 338-343).
NoTargetResponse ==
    [kind |-> "http", status |-> 400,
     body |-> "{error:No target URL configured for this interceptor}"]

\* Lines 329-346: the gate.  Without a target the handler answers 400;
\* with one it draws the requestId.  Calls are numbered in the order in
\* which they arrive.
Gate(p) ==
    /\ pc[p] = "received"
    /\ \A q \in Calls : q < p => pc[q] # "received"
    /\ targetUrl' = getTargetUrl
    /\ loads' = loads + storageGets
    /\ IF Falsy(getTargetUrl)
       THEN /\ response' = [response EXCEPT ![p] = NoTargetResponse]
            /\ pc' = [pc EXCEPT ![p] = "done"]
            /\ UNCHANGED << requestId, target, nextUUID >>
       ELSE /\ target' = [target EXCEPT ![p] = getTargetUrl]
            /\ requestId' = [requestId EXCEPT ![p] = randomUUID(nextUUID)]
            /\ nextUUID' = nextUUID + 1
            /\ pc' = [pc EXCEPT ![p] = "logging"]
            /\ UNCHANGED response
    /\ UNCHANGED << monitors, logs, wsVars, cfgVars, reply, outbound, appended,
                    base, nClears, nRevivals >>
    /\ UNCHANGED auxVars

\* The handler without the await on logRequest(requestLog): the request to
\* the target is issued whatever becomes of the logging call.
LogRequestEntryNoAwait(p, outcome) ==
    /\ pc[p] = "logging"
    /\ logRequest(requestLog(p), outcome)
    /\ pc' = [pc EXCEPT ![p] = "forwarding"]
    /\ outbound' = outbound \cup
           {[call |-> p, url |-> target[p], method |-> Inbound.method,
             body |-> Inbound.body]}
    /\ UNCHANGED << targetUrl, wsState, attachment, clock, nextSock, snapAt,
                    cfgVars, requestId, target, reply, response, nextUUID,
                    base, nClears, nRevivals >>
    /\ UNCHANGED << auxVars, loads >>

\* Lines 381-402: await logRequest(requestLog), outside the try; when it
\* returns, the request to the target is built and issued.
LogRequestEntry(p, outcome) ==
    /\ pc[p] = "logging"
    /\ logRequest(requestLog(p), outcome)
    /\ IF logRequestRejects(requestLog(p), outcome)
       THEN /\ pc' = [pc EXCEPT ![p] = "fault"]
            /\ UNCHANGED outbound
       ELSE /\ pc' = [pc EXCEPT ![p] = "forwarding"]
            /\ outbound' = outbound \cup
                   {[call |-> p, url |-> target[p], method |-> Inbound.method,
                     body |-> Inbound.body]}
    /\ UNCHANGED << targetUrl, wsState, attachment, clock, nextSock, snapAt,
                    cfgVars, requestId, target, reply, response, nextUUID,
                    base, nClears, nRevivals >>
    /\ UNCHANGED << auxVars, loads >>

\* Line 402: the fetch settles.
FetchSettles(p, r) ==
    /\ pc[p] = "forwarding"
    /\ reply' = [reply EXCEPT ![p] = r]
    /\ pc' = [pc EXCEPT ![p] = IF r.threw THEN "caught" ELSE "responding"]
    /\ UNCHANGED << doVars, wsVars, cfgVars, requestId, target, response,
                    nextUUID, outbound, appended, base, nClears, nRevivals >>
    /\ UNCHANGED << auxVars, loads >>

\* Lines 404-431: await logRequest(responseLog) inside the try, then
\* return response.
LogResponseEntry(p, outcome) ==
    /\ pc[p] = "responding"
    /\ logRequest(responseLog(p), outcome)
    /\ IF logRequestRejects(responseLog(p), outcome)
       THEN /\ pc' = [pc EXCEPT ![p] = "caught"]
            /\ UNCHANGED response
       ELSE /\ pc' = [pc EXCEPT ![p] = "done"]
            /\ response' = [response EXCEPT ![p] =
                   [kind |-> "http", status |-> reply[p].status,
                    body |-> reply[p].body]]
    /\ UNCHANGED << targetUrl, wsState, attachment, clock, nextSock, snapAt,
                    cfgVars, requestId, target, reply, nextUUID, outbound,
                    base, nClears, nRevivals >>
    /\ UNCHANGED << auxVars, loads >>

\* Lines 432-453: the catch block; its await logRequest(errorLog) is inside
\* no try.
LogErrorEntry(p, outcome) ==
    /\ pc[p] = "caught"
    /\ logRequest(errorLog(p), outcome)
    /\ IF logRequestRejects(errorLog(p), outcome)
       THEN /\ pc' = [pc EXCEPT ![p] = "fault"]
            /\ UNCHANGED response
       ELSE /\ pc' = [pc EXCEPT ![p] = "done"]
            /\ response' = [response EXCEPT ![p] =
                   [kind |-> "http", status |-> 500, body |-> errorLog(p).body]]
    /\ UNCHANGED << targetUrl, wsState, attachment, clock, nextSock, snapAt,
                    cfgVars, requestId, target, reply, nextUUID, outbound,
                    base, nClears, nRevivals >>
    /\ UNCHANGED << auxVars, loads >>

(***************************************************************************)
(* The namespace: every route takes the interceptor id of its URL to       *)
(* idFromName and calls the one object of that name (lines 271-272,        *)
(* 299-300, 318-319, 331-332, 466-467).  The object named InterceptorId is *)
(* the one modelled above; the objects of the other names run the same     *)
(* class, kept here by their fields and their stored target.               *)
(***************************************************************************)
\* Everything but the other objects.
sessionVars == << doVars, wsVars, callVars, cfgVars, appended, base, nClears,
                  nRevivals, loads, info, nInfos, heard, found, edgeVars >>

\* An entry a proxied call appends to the ledger of another session.
OtherEntry ==
    [id |-> randomUUID(0), direction |-> "request", method |-> Inbound.method,
     url |-> Inbound.url, body |-> Inbound.body]

\* A clearLogs that empties the ledger of every object of the namespace.
OtherClearAll(id) ==
    /\ others' = [i \in OtherIds |-> [others[i] EXCEPT !.logs = << >>]]
    /\ logs' = << >>
    /\ UNCHANGED << monitors, targetUrl, wsVars, callVars, cfgVars, appended,
                    base, nClears, nRevivals, loads, info, nInfos, heard, found,
                    edgeVars >>

\* DELETE /api/interceptors/:id/logs (lines 315-325) for another id:
\* clearLogs (lines 110-117) on that object.
OtherClear(id) ==
    /\ others' = [others EXCEPT ![id].logs = << >>]
    /\ UNCHANGED sessionVars

\* POST /api/interceptors (lines 251-293): the address is validated, an id
\* is drawn, 8 characters of a random UUID, which nothing keeps from being
\* an id already in use, and setTargetUrl runs on the object of that name.
Create(id, address) ==
    /\ ~Falsy(address)
    /\ ~URLThrows(address)
    /\ IF id = InterceptorId
       THEN setTargetUrl(address, FALSE)
       ELSE /\ others' = [others EXCEPT
                   ![id].targetUrl = address,
                   ![id].stored = address]
            /\ UNCHANGED sessionVars

\* /proxy/:id/* (lines 328-454) for another id: getTargetUrl (lines
\* 102-107) on that object, and with a target logRequest (lines 97-99,
\* 166-180).
OtherProxy(id) ==
    LET o == others[id]
        t == IF Falsy(o.targetUrl)
             THEN (IF Falsy(o.stored) THEN Null ELSE o.stored)
             ELSE o.targetUrl
        pushed == Append(o.logs, OtherEntry)
    IN /\ others' = [others EXCEPT
              ![id].targetUrl = t,
              ![id].logs = IF Falsy(t) THEN @
                           ELSE IF Len(pushed) > Cap THEN SliceLast(pushed, Cap)
                           ELSE pushed]
       /\ UNCHANGED sessionVars

\* /monitor/:id (lines 457-470) for another id: handleWebSocketUpgrade
\* (lines 128-164) on that object.
OtherObserve(id) ==
    /\ Len(others[id].monitors) < MaxOtherSockets
    /\ others' = [others EXCEPT ![id].monitors =
                     Append(@, [interceptorId |-> id])]
    /\ UNCHANGED sessionVars

Next ==
    \/ getInfo
    \/ \E s \in Sockets : TransportError(s)
    \/ \E s \in Sockets : ErrorDelivered(s)
    \/ \E s \in Sockets, m \in ObserverMessages : webSocketMessage(s, m)
    \/ \E id \in AllIds, a \in TargetInputs : Create(id, a)
    \/ \E id \in OtherIds : OtherClear(id)
    \/ \E id \in OtherIds : OtherProxy(id)
    \/ \E id \in OtherIds : OtherObserve(id)
    \/ clearLogs
    \/ handleWebSocketUpgrade
    \/ \E s \in Sockets : PeerClose(s)
    \/ \E s \in Sockets : webSocketClose(s)
    \/ \E a \in TargetInputs, putFails \in BOOLEAN : setTargetUrl(a, putFails)
    \/ Revive
    \/ \E p \in Calls : Gate(p)
    \/ \E p \in Calls, o \in RpcOutcomes : LogRequestEntry(p, o)
    \/ \E p \in Calls, r \in TargetReplies : FetchSettles(p, r)
    \/ \E p \in Calls, o \in RpcOutcomes : LogResponseEntry(p, o)
    \/ \E p \in Calls, o \in RpcOutcomes : LogErrorEntry(p, o)

Spec == Init /\ [][Next]_vars

(***************************************************************************)
(* The session once a target is configured: the state after                *)
(* POST /api/interceptors (lines 251-293) has called setTargetUrl with a   *)
(* well-formed address.                                                    *)
(***************************************************************************)
Configured == Str("https", "example.test/mcp")

InitConfigured ==
    /\ monitors = << >>
    /\ logs = << >>
    /\ targetUrl = Configured
    /\ stored = Configured
    /\ wsState = [s \in Sockets |-> "none"]
    /\ attachment = [s \in Sockets |-> NoMeta]
    /\ inbox = [s \in Sockets |-> << >>]
    /\ clock = 1
    /\ nextSock = 1
    /\ pc = [p \in Calls |-> "received"]
    /\ requestId = [p \in Calls |-> ""]
    /\ target = [p \in Calls |-> Null]
    /\ reply = [p \in Calls |-> NoReply]
    /\ response = [p \in Calls |-> NoResponse]
    /\ nextUUID = 1
    /\ appended = << >>
    /\ base = 0
    /\ snapAt = [s \in Sockets |-> NoSnap]
    /\ dropped = {}
    /\ outbound = {}
    /\ lastSet = [address |-> Configured, result |-> [success |-> TRUE], rev |-> 0]
    /\ nClears = 0
    /\ nRevivals = 0
    /\ nSets = 1
    /\ loads = 0
    /\ info = NoResponse
    /\ request = NoRequest
    /\ loggedRequest = NoRequest
    /\ proxyRequest = NoRequest
    /\ validated = {}
    /\ viewLogs = << >>
    /\ groups = << >>
    /\ page = "new"
    /\ connState = [c \in Conns |-> "none"]
    /\ wsRef = 0
    /\ timers = 0
    /\ nInfos = 0
    /\ heard = << >>
    /\ found = [s \in Sockets |-> "unasked"]
    /\ others = [id \in OtherIds |-> FreshObject]

\* Fan-out under concurrent calls: the calls of the pipeline run
\* concurrently while observers come and go and the ledger is cleared.  The
\* stub calls succeed and the target answers with text or not at all, which
\* changes nothing in what the object does with an entry; the actor stays
\* resident.
FanoutReplies == { r \in TargetReplies : r.threw \/ r.readable }

NextFanout ==
    \/ clearLogs
    \/ handleWebSocketUpgrade
    \/ \E s \in Sockets : PeerClose(s)
    \/ \E s \in Sockets : webSocketClose(s)
    \/ \E p \in Calls : Gate(p)
    \/ \E p \in Calls : LogRequestEntry(p, "ok")
    \/ \E p \in Calls, r \in FanoutReplies : FetchSettles(p, r)
    \/ \E p \in Calls : LogResponseEntry(p, "ok")
    \/ \E p \in Calls : LogErrorEntry(p, "ok")

SpecFanout == InitConfigured /\ [][NextFanout]_vars

\* Fan-out across suspension: one call, with every outcome of its stub
\* calls and of its forward, while observers come and go, the ledger is
\* cleared and the actor is suspended and revived.
FirstCall == {1}

NextRevival ==
    \/ clearLogs
    \/ handleWebSocketUpgrade
    \/ \E s \in Sockets : PeerClose(s)
    \/ \E s \in Sockets : webSocketClose(s)
    \/ Revive
    \/ \E p \in FirstCall : Gate(p)
    \/ \E p \in FirstCall, o \in RpcOutcomes : LogRequestEntry(p, o)
    \/ \E p \in FirstCall, r \in TargetReplies : FetchSettles(p, r)
    \/ \E p \in FirstCall, o \in RpcOutcomes : LogResponseEntry(p, o)
    \/ \E p \in FirstCall, o \in RpcOutcomes : LogErrorEntry(p, o)

SpecRevival == InitConfigured /\ [][NextRevival]_vars

(***************************************************************************)
(* Creation of sessions: the route POST /api/validate-mcp (lines 493-684), *)
(* the creation form of the web page (InterceptorCreator) and any other    *)
(* client of POST /api/interceptors.                                       *)
(***************************************************************************)
\* What the probed address does with the initialize request (lines
\* 520-548): the fetch throws or times out, or it answers, with an ok
\* status or not, and a body from which the route recovers no JSON, JSON
\* without result.protocolVersion, or an initialize result.
ProbeAnswers ==
    { [threw |-> TRUE, ok |-> FALSE, data |-> "none"],
      [threw |-> FALSE, ok |-> FALSE, data |-> "none"],
      [threw |-> FALSE, ok |-> TRUE, data |-> "none"],
      [threw |-> FALSE, ok |-> TRUE, data |-> "other"],
      [threw |-> FALSE, ok |-> TRUE, data |-> "initialize"] }

\* Lines 493-684: whether the route answers valid: true.
validateMcp(address, answer) ==
    /\ ~Falsy(address)
    /\ ~URLThrows(address)
    /\ address.scheme \in {"http", "https"}
    /\ ~answer.threw
    /\ answer.ok
    /\ answer.data = "initialize"

\* POST /api/validate-mcp, from any client.
ValidateMcp(address, answer) ==
    /\ validated' = IF validateMcp(address, answer)
                    THEN validated \cup {address} ELSE validated
    /\ UNCHANGED << request, loggedRequest, proxyRequest, viewLogs, groups,
                    clientVars >>
    /\ UNCHANGED systemVars

\* What is typed in the form: two absolute URLs, a host without a scheme,
\* a scheme without a host and nothing.
FormInputs ==
    { Str("https", "example.test/mcp"), Str("http", "other.test"),
      Str("", "example.test/mcp"), Str("https", ""), Str("", "") }

\* normalizeUrl (InterceptorCreator.tsx lines 14-20): https:// is put in
\* front of a string that starts with neither http:// nor https://.
normalizeUrl(url) ==
    IF url.scheme \in {"http", "https"} THEN url ELSE Str("https", url.host)

\* handleSubmit (InterceptorCreator.tsx lines 56-109): the form posts to
\* /api/interceptors only after new URL(normalizedUrl) and
\* validateMcpServer(normalizedUrl) have both returned; the validation
\* request itself is a ValidateMcp step.
handleSubmit(id, input) ==
    LET normalizedUrl == normalizeUrl(input)
    IN /\ input # Str("", "")
       /\ ~URLThrows(normalizedUrl)
       /\ normalizedUrl \in validated
       /\ Create(id, normalizedUrl)

NextCreate ==
    \/ \E a \in TargetInputs, answer \in ProbeAnswers : ValidateMcp(a, answer)
    \/ \E id \in AllIds, input \in FormInputs : handleSubmit(id, input)
    \/ \E id \in AllIds, a \in TargetInputs : Create(id, a)
    \/ getInfo

SpecCreate == Init /\ [][NextCreate]_vars

(***************************************************************************)
(* The viewer page (InterceptorViewer.tsx): its list of entries, fed by    *)
(* the messages of the session, and the grouping it displays.              *)
(***************************************************************************)
\* Entries of two exchanges, by the fields the page's grouping reads: the
\* requests, the response of the first and the error of the second.
ViewEntries ==
    { [id |-> randomUUID(1), direction |-> "request"],
      [id |-> randomUUID(2), direction |-> "request"],
      [id |-> randomUUID(1) \o "-response", direction |-> "response"],
      [id |-> randomUUID(2) \o "-error", direction |-> "response"] }

\* group.response when the group has none (undefined).
NoLog == [kind |-> "none"]

\* The message listener (lines 84-96): initial_logs replaces the list,
\* new_log is added at its end, any other message leaves it as it is.
onMessage(prev, data) ==
    IF data.type = "initial_logs" THEN data.logs
    ELSE IF data.type = "new_log" THEN Append(prev, data.log)
    ELSE prev

\* A grouping that gives a response to the most recent group that has none.
RECURSIVE groupedLogsMostRecentOpen(_)
groupedLogsMostRecentOpen(list) ==
    IF list = << >> THEN << >>
    ELSE LET before == groupedLogsMostRecentOpen(SubSeq(list, 1, Len(list) - 1))
             log == list[Len(list)]
             open == { g \in DOMAIN before : before[g].response = NoLog }
         IN IF log.direction = "request"
            THEN Append(before, [request |-> log, response |-> NoLog])
            ELSE IF open # {}
                 THEN [before EXCEPT
                          ![CHOOSE g \in open : \A h \in open : h <= g].response = log]
                 ELSE Append(before, [request |-> log, response |-> log])

\* groupedLogs (lines 166-196), second pass: a request entry opens a group;
\* a response entry goes to the last group when that group has no response,
\* and otherwise makes a group in which it is request and response.  (The
\* requestMap of the first pass is not read.)
RECURSIVE groupedLogs(_)
groupedLogs(list) ==
    IF list = << >> THEN << >>
    ELSE LET before == groupedLogs(SubSeq(list, 1, Len(list) - 1))
             log == list[Len(list)]
         IN IF log.direction = "request"
            THEN Append(before, [request |-> log, response |-> NoLog])
            ELSE IF before # << >> /\ before[Len(before)].response = NoLog
                 THEN [before EXCEPT ![Len(before)].response = log]
                 ELSE Append(before, [request |-> log, response |-> log])

\* The messages the model gives to the page: the replay of an empty ledger,
\* of a ledger that starts with a response, of two requests; each entry as
\* new_log; logs_cleared.
ViewerMessages ==
    { InitialLogs(<< >>),
      InitialLogs(<< [id |-> randomUUID(1) \o "-response", direction |-> "response"] >>),
      InitialLogs(<< [id |-> randomUUID(1), direction |-> "request"],
                     [id |-> randomUUID(2), direction |-> "request"] >>),
      LogsCleared }
    \cup { NewLog(e) : e \in ViewEntries }

\* A message reaches the page: the listener updates the list and the page
\* renders, calling groupedLogs().
ViewerReceives(data) ==
    /\ Len(onMessage(viewLogs, data)) <= MaxViewLen
    /\ viewLogs' = onMessage(viewLogs, data)
    /\ groups' = groupedLogs(viewLogs')
    /\ UNCHANGED << request, loggedRequest, proxyRequest, validated, clientVars >>
    /\ UNCHANGED systemVars

NextGrouping == \E data \in ViewerMessages : ViewerReceives(data)

SpecGrouping == InitConfigured /\ [][NextGrouping]_vars

\* The list of the page connected as socket s, after the messages sent to
\* that socket.
RECURSIVE ListAfter(_)
ListAfter(messages) ==
    IF messages = << >> THEN << >>
    ELSE onMessage(ListAfter(SubSeq(messages, 1, Len(messages) - 1)),
                   messages[Len(messages)])

ViewerLogs(s) == ListAfter(inbox[s])

(***************************************************************************)
(* The viewer page's connection (InterceptorViewer.tsx lines 43-118): the  *)
(* effect that connects on mount, the close listener that schedules a      *)
(* reconnect, and the effect's cleanup on unmount.  The socket is taken    *)
(* as one that does not reconnect by itself.                               *)
(***************************************************************************)
otherEdgeVars == << request, loggedRequest, proxyRequest, validated, viewLogs, groups >>

\* connectWebSocket (lines 69-109): a new WebSocket, kept in wsRef.current.
\* What it changes of the page's connections.
connectWebSocket ==
    LET ws == CHOOSE c \in Conns : connState[c] = "none" /\
                                   \A d \in Conns : connState[d] = "none" => c <= d
    IN /\ \E c \in Conns : connState[c] = "none"
       /\ connState' = [connState EXCEPT ![ws] = "open"]
       /\ wsRef' = ws

\* The component mounts: the effect runs connectWebSocket (line 111).
Mount ==
    /\ page = "new"
    /\ page' = "mounted"
    /\ connectWebSocket
    /\ UNCHANGED << timers, otherEdgeVars >>
    /\ UNCHANGED systemVars

\* The session or the network closes a connection: the close listener
\* (lines 99-103) schedules connectWebSocket.
ServerCloses(c) ==
    /\ connState[c] = "open"
    /\ connState' = [connState EXCEPT ![c] = "closed"]
    /\ timers' = timers + 1
    /\ UNCHANGED << page, wsRef, otherEdgeVars >>
    /\ UNCHANGED systemVars

\* The close event of a connection the page closed itself: the same
\* listener (lines 99-103).
CloseEvent(c) ==
    /\ connState[c] = "closing"
    /\ connState' = [connState EXCEPT ![c] = "closed"]
    /\ timers' = timers + 1
    /\ UNCHANGED << page, wsRef, otherEdgeVars >>
    /\ UNCHANGED systemVars

\* A scheduled connectWebSocket runs (line 102); nothing cancels it and it
\* tests nothing.
TimerFires ==
    /\ timers > 0
    /\ timers' = timers - 1
    /\ connectWebSocket
    /\ UNCHANGED << page, otherEdgeVars >>
    /\ UNCHANGED systemVars

\* The component unmounts: the cleanup (lines 113-117) closes
\* wsRef.current.
Unmount ==
    /\ page = "mounted"
    /\ page' = "unmounted"
    /\ connState' = IF wsRef # 0 /\ connState[wsRef] = "open"
                    THEN [connState EXCEPT ![wsRef] = "closing"]
                    ELSE connState
    /\ UNCHANGED << wsRef, timers, otherEdgeVars >>
    /\ UNCHANGED systemVars

\* A message arrives on a connection that is open: its message listener
\* (lines 83-97) runs.
MessageEvent(c, data) ==
    /\ connState[c] = "open"
    /\ ViewerReceives(data)

NextViewer ==
    \/ Mount
    \/ \E c \in Conns, data \in ViewerMessages : MessageEvent(c, data)
    \/ \E c \in Conns : ServerCloses(c)
    \/ \E c \in Conns : CloseEvent(c)
    \/ TimerFires
    \/ Unmount

SpecViewer == InitConfigured /\ [][NextViewer]_vars

(***************************************************************************)
(* The proxy handler's treatment of one inbound request (lines 348-399),   *)
(* taken by itself: what it reads of the request for the log and what it   *)
(* passes on to the target.                                                *)
(***************************************************************************)
\* request.body is null, or a stream that reads as text, or a stream whose
\* reading fails.
NoBody == [kind |-> "null"]
Text(t) == [kind |-> "stream", readable |-> TRUE, text |-> t]
Unreadable == [kind |-> "stream", readable |-> FALSE, text |-> ""]
Bodies == {Text("ping"), Text("{}"), Unreadable}

Methods == {"GET", "HEAD", "POST", "PUT", "PATCH", "DELETE", "OPTIONS"}

\* Header sets, as functions from names to values.
HeaderSets ==
    { [n \in {"accept"} |-> "*/*"],
      [n \in {"accept", "content-type"} |->
           IF n = "accept" THEN "*/*" ELSE "application/json"],
      [n \in {"authorization", "content-type"} |->
           IF n = "authorization" THEN "Bearer t" ELSE "text/plain"] }

\* The requests that can reach the handler: a GET or HEAD request has no
\* body, a request of another method has one or not.
Requests ==
    { [method |-> m, headers |-> h, body |-> b] :
          m \in Methods, h \in HeaderSets, b \in Bodies \cup {NoBody} }
    \ [method : {"GET", "HEAD"}, headers : HeaderSets, body : Bodies]

\* Lines 351-354: requestHeaders, a copy of every header.
requestHeaders(r) == [n \in DOMAIN r.headers |-> r.headers[n]]

\* Lines 356-369: requestBody.  The body is read, from a clone, for the
\* methods POST, PUT and PATCH; it stays undefined otherwise.
requestBody(r) ==
    IF r.body # NoBody /\ r.method \in {"POST", "PUT", "PATCH"}
    THEN (IF r.body.readable THEN Text(r.body.text) ELSE Text("[Binary data]"))
    ELSE NoBody

\* c.req.raw (line 348): a request reaches the handler.
Arrives(r) ==
    /\ request = NoRequest
    /\ request' = r
    /\ UNCHANGED << loggedRequest, proxyRequest, validated, viewLogs, groups,
                    clientVars >>
    /\ UNCHANGED systemVars

\* Lines 351-379: the requestLog.
BuildRequestLog ==
    /\ request # NoRequest /\ loggedRequest = NoRequest
    /\ loggedRequest' =
           [direction |-> "request", method |-> request.method,
            headers |-> requestHeaders(request), body |-> requestBody(request)]
    /\ UNCHANGED << request, proxyRequest, validated, viewLogs, groups,
                    clientVars >>
    /\ UNCHANGED systemVars

\* Lines 392-399: the Request for the target takes the method, the headers
\* and the body stream of the inbound request.
BuildProxyRequest ==
    /\ loggedRequest # NoRequest /\ proxyRequest = NoRequest
    /\ proxyRequest' =
           [method |-> request.method, headers |-> request.headers,
            body |-> request.body]
    /\ UNCHANGED << request, loggedRequest, validated, viewLogs, groups,
                    clientVars >>
    /\ UNCHANGED systemVars

NextBody ==
    \/ \E r \in Requests : Arrives(r)
    \/ BuildRequestLog
    \/ BuildProxyRequest

SpecBody == InitConfigured /\ [][NextBody]_vars

(***************************************************************************)
(* Registration with a replay that can fail to be sent: observers connect, *)
(* with the initial send succeeding or throwing, and go away, while the    *)
(* request entry of a call is appended and the ledger is cleared.          *)
(***************************************************************************)
NextRegister ==
    \/ handleWebSocketUpgrade
    \/ \E after \in {"open", "closing"} : handleWebSocketUpgradeThrows(after)
    \/ \E s \in Sockets : PeerClose(s)
    \/ \E s \in Sockets : webSocketClose(s)
    \/ clearLogs
    \/ \E p \in FirstCall : Gate(p)
    \/ \E p \in FirstCall : LogRequestEntry(p, "ok")

SpecRegister == InitConfigured /\ [][NextRegister]_vars

(***************************************************************************)
(* The forward and the target's answer: two calls whose stub calls all     *)
(* return, observers connecting, and a target that answers, fails or stays *)
(* silent.  The handler's continuations after an await on a stub call      *)
(* (lines 382, 424, 447) are resumed by the runtime once the call returns, *)
(* hence weakly fair; the settling of the fetch (line 402) is the target's *)
(* doing, and no fairness is assumed of it.                                *)
(***************************************************************************)
NextForward ==
    \/ handleWebSocketUpgrade
    \/ \E p \in Calls : Gate(p)
    \/ \E p \in Calls : LogRequestEntry(p, "ok")
    \/ \E p \in Calls, r \in TargetReplies : FetchSettles(p, r)
    \/ \E p \in Calls : LogResponseEntry(p, "ok")
    \/ \E p \in Calls : LogErrorEntry(p, "ok")

FairForward ==
    \A p \in Calls :
        /\ WF_vars(LogRequestEntry(p, "ok"))
        /\ WF_vars(LogResponseEntry(p, "ok"))
        /\ WF_vars(LogErrorEntry(p, "ok"))

SpecForward == InitConfigured /\ [][NextForward]_vars /\ FairForward

(***************************************************************************)
(* One proxied call from the construction of the session on: target        *)
(* configuration, the gate, and the pipeline with every outcome of the     *)
(* calls it makes, while observers connect.                                *)
(***************************************************************************)
NextProxy ==
    \/ handleWebSocketUpgrade
    \/ \E a \in TargetInputs, putFails \in BOOLEAN : setTargetUrl(a, putFails)
    \/ Revive
    \/ \E p \in FirstCall : Gate(p)
    \/ \E p \in FirstCall, o \in RpcOutcomes : LogRequestEntry(p, o)
    \/ \E p \in FirstCall, r \in TargetReplies : FetchSettles(p, r)
    \/ \E p \in FirstCall, o \in RpcOutcomes : LogResponseEntry(p, o)
    \/ \E p \in FirstCall, o \in RpcOutcomes : LogErrorEntry(p, o)

SpecProxy == Init /\ [][NextProxy]_vars

(***************************************************************************)
(* The registry of one session: observers connect, send messages, go away  *)
(* with a close or with a transport error, while the request entry of a    *)
(* call is appended, the ledger is cleared and the session is asked for    *)
(* its info.  The actor stays resident.                                    *)
(***************************************************************************)
NextRegistry ==
    \/ handleWebSocketUpgrade
    \/ \E s \in Sockets : PeerClose(s)
    \/ \E s \in Sockets : webSocketClose(s)
    \/ \E s \in Sockets : TransportError(s)
    \/ \E s \in Sockets : ErrorDelivered(s)
    \/ \E s \in Sockets, m \in ObserverMessages : webSocketMessage(s, m)
    \/ getInfo
    \/ clearLogs
    \/ \E p \in FirstCall : Gate(p)
    \/ \E p \in FirstCall : LogRequestEntry(p, "ok")

SpecRegistry == InitConfigured /\ [][NextRegistry]_vars

(***************************************************************************)
(* The ledger of a configured session under every operation of the object: *)
(* the target is changed and read, observers connect, send messages and    *)
(* close, the request entry of a call is appended, the ledger is cleared,  *)
(* and the actor is suspended and revived.  Storage works.                 *)
(***************************************************************************)
\* The address the target is changed to.
Reconfigured == Str("http", "other.test")

NextLedger ==
    \/ setTargetUrl(Reconfigured, FALSE)
    \/ getInfo
    \/ handleWebSocketUpgrade
    \/ \E s \in Sockets : PeerClose(s)
    \/ \E s \in Sockets : webSocketClose(s)
    \/ \E s \in Sockets : webSocketMessage(s, [binary |-> FALSE, data |-> "not json"])
    \/ clearLogs
    \/ Revive
    \/ \E p \in FirstCall : Gate(p)
    \/ \E p \in FirstCall : LogRequestEntry(p, "ok")

SpecLedger == InitConfigured /\ [][NextLedger]_vars

(***************************************************************************)
(* The target of one session: it is set, read by getInfo and by the gate   *)
(* of proxied calls, and reloaded when the actor is revived.               *)
(***************************************************************************)
NextTarget ==
    \/ \E a \in TargetInputs, putFails \in BOOLEAN : setTargetUrl(a, putFails)
    \/ Revive
    \/ getInfo
    \/ \E p \in Calls : Gate(p)

SpecTarget == Init /\ [][NextTarget]_vars

(***************************************************************************)
(* Several sessions: interceptors are created and the routes are called    *)
(* with the ids of three sessions.  The storage of the objects works.      *)
(***************************************************************************)
NextSessions ==
    \/ \E id \in AllIds, a \in TargetInputs : Create(id, a)
    \/ \E id \in OtherIds : OtherClear(id)
    \/ \E id \in OtherIds : OtherProxy(id)
    \/ \E id \in OtherIds : OtherObserve(id)
    \/ clearLogs
    \/ handleWebSocketUpgrade
    \/ \E p \in FirstCall : Gate(p)
    \/ \E p \in FirstCall : LogRequestEntry(p, "ok")

SpecSessions == Init /\ [][NextSessions]_vars

(***************************************************************************)
(* What an observer has seen, and what the ledger has been given.          *)
(***************************************************************************)
Min(a, b) == IF a < b THEN a ELSE b

Count(x, seq) == Cardinality({ k \in DOMAIN seq : seq[k] = x })

\* The entries of the observer's initial_logs message.
InitialOf(s) ==
    IF inbox[s] # << >> /\ inbox[s][1].type = "initial_logs"
    THEN inbox[s][1].logs ELSE << >>

\* The entries of the observer's new_log messages, in the order received.
NewLogsOf(s) ==
    LET live == SelectSeq(inbox[s], LAMBDA m : m.type = "new_log")
    IN [k \in DOMAIN live |-> live[k].log]

\* An observer that has been in the registry ever since its registration.
StaysRegistered(s) == s \in MapKeys(monitors) /\ s \notin dropped

\* At least Cap entries followed entry i into the same ledger before the
\* observer's snapshot: entry i had been evicted when the snapshot was taken.
EvictedBeforeSnapshot(i, s) ==
    Cardinality({ j \in (i + 1)..snapAt[s].len :
                    /\ appended[j].rev = appended[i].rev
                    /\ appended[j].clr = appended[i].clr }) >= Cap

PosOf(log) == CHOOSE i \in DOMAIN appended : appended[i].log = log

\* Everything an observer has been shown, in the order it was shown.
SeenBy(s) == InitialOf(s) \o NewLogsOf(s)

\* C2: what an observer is shown (its initial_logs, then its new_log
\* events) follows the order of the appends: every entry shown was appended,
\* and a later one shown was appended later, so none is shown twice.
C2_AppendOrder ==
    \A s \in Sockets :
        LET seen == SeenBy(s) IN
        /\ \A k \in DOMAIN seen : \E i \in DOMAIN appended : appended[i].log = seen[k]
        /\ \A k, l \in DOMAIN seen : k < l => PosOf(seen[k]) < PosOf(seen[l])

\* An observer that was shown entries of two calls whose steps interleave:
\* both requests, then both responses.
C2_Witness ==
    \E s \in Sockets :
        /\ Len(InitialOf(s)) >= 2
        /\ Len(NewLogsOf(s)) >= 2
        /\ InitialOf(s)[1].id = "uuid1"
        /\ InitialOf(s)[2].id = "uuid2"
        /\ NewLogsOf(s)[1].id = "uuid2-response"

\* C3: since the ledger was last emptied, after N appends it holds
\* min(N, Cap) entries, the last ones appended, in the order of the appends.
C3_BoundedFIFO ==
    LET N == Len(appended) - base IN
    /\ Len(logs) <= Cap
    /\ Len(logs) = Min(N, Cap)
    /\ \A k \in DOMAIN logs : logs[k] = appended[Len(appended) - Len(logs) + k].log

\* More appends than the capacity since the ledger was last emptied.
C3_Witness == Len(appended) - base > Cap /\ Len(logs) = Cap

\* A step in which addLog ran, and a step in which clearLogs ran.
AppendStep == Len(appended') = Len(appended) + 1
ClearStep == nClears' = nClears + 1

\* The sockets on which send does not throw.
Sendable(s) == wsState[s] = "open"

\* C6: in the broadcast of a new_log or of logs_cleared, every registered
\* observer whose own send does not fail receives the event, once, wherever
\* the failing observers stand in the registry and however many they are.
C6_FaultIsolation ==
    [][ /\ AppendStep =>
             \A s \in MapKeys(monitors) : Sendable(s) =>
                 inbox'[s] = Append(inbox[s], NewLog(appended'[Len(appended')].log))
        /\ ClearStep =>
             \A s \in MapKeys(monitors) : Sendable(s) =>
                 inbox'[s] = Append(inbox[s], LogsCleared)
      ]_vars

\* The send to the first observer of the registry failed in the broadcast
\* of the latest entry, and the second observer received that entry.
C6_Witness ==
    \E s1, s2 \in Sockets :
        /\ nRevivals = 0 /\ nClears = 0 /\ s1 < s2
        /\ wsState[s1] = "closing" /\ s1 \in dropped
        /\ StaysRegistered(s2)
        /\ Len(appended) >= 1
        /\ snapAt[s1].len < Len(appended) /\ snapAt[s2].len < Len(appended)
        /\ Len(NewLogsOf(s1)) = Len(appended) - 1 - snapAt[s1].len
        /\ inbox[s2][Len(inbox[s2])] = NewLog(appended[Len(appended)].log)

\* C7: a broadcast deletes from the registry exactly the observers whose
\* send failed; the entry is in the ledger all the same, and the call whose
\* logRequest caused the broadcast goes on as it does without a failure: to
\* the forward after the request entry, to the target's response after the
\* response entry, to the 500 after the error entry.
C7_FailureStaysLocal ==
    [][ /\ (AppendStep \/ ClearStep) =>
             monitors' = SelectSeq(monitors, LAMBDA m : Sendable(m.socket))
        /\ \A p \in Calls :
             (pc[p] \in {"logging", "responding", "caught"} /\ pc'[p] # pc[p]) =>
                 /\ AppendStep
                 /\ logs'[Len(logs')] = appended'[Len(appended')].log
                 /\ pc[p] = "logging" =>
                      /\ appended'[Len(appended')].log = requestLog(p)
                      /\ pc'[p] = "forwarding"
                      /\ response'[p] = response[p]
                 /\ pc[p] = "responding" =>
                      /\ appended'[Len(appended')].log = responseLog(p)
                      /\ pc'[p] = "done"
                      /\ response'[p] = [kind |-> "http", status |-> reply[p].status,
                                         body |-> reply[p].body]
                 /\ pc[p] = "caught" =>
                      /\ appended'[Len(appended')].log = errorLog(p)
                      /\ pc'[p] = "done"
                      /\ response'[p] = [kind |-> "http", status |-> 500,
                                         body |-> errorLog(p).body]
      ]_vars

\* The broadcast of a call's response entry dropped an observer whose send
\* failed, kept the other, and the call returned the target's response.
C7_Witness ==
    \E s1, s2 \in Sockets :
        /\ nRevivals = 0 /\ nClears = 0
        /\ wsState[s1] = "closing" /\ s1 \in dropped
        /\ StaysRegistered(s2)
        /\ Len(appended) = 2
        /\ Len(NewLogsOf(s1)) = 1 /\ snapAt[s1].len = 0
        /\ pc[1] = "done" /\ response[1].status = 200
        /\ logs[Len(logs)].id = "uuid1-response"

\* C8: clearLogs empties the ledger and every registered observer whose
\* send does not fail receives logs_cleared once from it, nobody else
\* receives anything; an observer's initial_logs holds only entries
\* appended since the last clear before its registration (none when there
\* was no append in between), and an observer receives no logs_cleared for
\* a clear that preceded its registration.
C8_ClearSemantics ==
    /\ [][ ClearStep =>
             /\ logs' = << >>
             /\ \A s \in Sockets :
                  inbox'[s] = IF s \in MapKeys(monitors) /\ Sendable(s)
                              THEN Append(inbox[s], LogsCleared)
                              ELSE inbox[s]
         ]_vars
    /\ [](\A s \in Sockets :
            /\ \A k \in DOMAIN InitialOf(s) :
                 \E i \in 1..snapAt[s].len :
                    /\ appended[i].log = InitialOf(s)[k]
                    /\ appended[i].clr = snapAt[s].clr
            /\ wsState[s] # "none" =>
                 /\ Count(LogsCleared, inbox[s]) <= nClears - snapAt[s].clr
                 /\ Sendable(s) => Count(LogsCleared, inbox[s]) = nClears - snapAt[s].clr)

\* An entry was appended, the ledger was cleared while one observer was
\* registered, and another observer registered after the clear.
C8_Witness ==
    \E s1, s2 \in Sockets :
        /\ nClears = 1 /\ Len(appended) >= 1 /\ appended[1].clr = 0
        /\ Len(InitialOf(s1)) = 1
        /\ Count(LogsCleared, inbox[s1]) = 1
        /\ snapAt[s2].clr = 1 /\ snapAt[s2].len = Len(appended)
        /\ inbox[s2] = << InitialLogs(<< >>) >>
        /\ logs = << >>

\* The ids of the entries appended so far.
IdsAppended == [i \in DOMAIN appended |-> appended[i].log.id]

\* C4: a call that passed the gate and has completed, with a response or
\* with an exception, produced exactly one request entry with id requestId,
\* and exactly one entry with id requestId-response or requestId-error.
C4_ExactlyOnePair ==
    \A p \in Calls : (pc[p] \in {"done", "fault"} /\ requestId[p] # "") =>
        /\ Count(requestId[p], IdsAppended) = 1
        /\ Count(requestId[p] \o "-response", IdsAppended)
             + Count(requestId[p] \o "-error", IdsAppended) = 1

\* C5: no failure leaves the proxy handler with an exception in the place
\* of a response.
C5_AlwaysResponds == \A p \in Calls : pc[p] # "fault"

\* The addresses among the inputs that are well-formed absolute URLs.
WellFormedAbsolute == { Str("https", "example.test/mcp"), Str("http", "other.test") }
Malformed == TargetInputs \ WellFormedAbsolute

\* A step in which setTargetUrl ran.
SetStep == nSets' = nSets + 1

\* C9: setTargetUrl with an address that is not a well-formed absolute URL
\* returns a failure and changes neither the target in memory nor the
\* stored one.
C9_RejectsMalformed ==
    [][ (SetStep /\ lastSet'.address \in Malformed) =>
            /\ lastSet'.result.success = FALSE
            /\ targetUrl' = targetUrl
            /\ stored' = stored
      ]_vars

\* A malformed address was refused while a target was configured.
C9_Witness ==
    /\ nSets = 2
    /\ lastSet.address \in Malformed
    /\ lastSet.result.success = FALSE
    /\ targetUrl \in WellFormedAbsolute
    /\ stored = targetUrl

\* C10: a call that reaches the gate while the session has no target, in
\* memory or stored, is answered with a 4xx response and that is all: no
\* requestId, no entry, no message to an observer, no request to the target,
\* then or later.
C10_GateClosed ==
    /\ [][ \A p \in Calls :
             (/\ pc[p] = "received" /\ pc'[p] # "received"
              /\ targetUrl = Null /\ stored = Null) =>
                 /\ pc'[p] = "done"
                 /\ response'[p].kind = "http"
                 /\ response'[p].status \in 400..499
                 /\ requestId'[p] = ""
                 /\ appended' = appended /\ logs' = logs
                 /\ inbox' = inbox /\ monitors' = monitors
                 /\ outbound' = outbound
         ]_vars
    /\ [](\A p \in Calls :
            (pc[p] = "done" /\ response[p] = NoTargetResponse) =>
                /\ requestId[p] = ""
                /\ \A o \in outbound : o.call # p
                /\ \A i \in DOMAIN appended : appended[i].log.id # requestId[p])

\* A call was refused at the gate while an observer was connected, after an
\* attempt to configure a malformed target.
C10_Witness ==
    /\ pc[1] = "done" /\ response[1] = NoTargetResponse
    /\ nSets >= 1 /\ lastSet.address \in Malformed
    /\ \E s \in Sockets : StaysRegistered(s) /\ inbox[s] = << InitialLogs(<< >>) >>

\* The call's forward was made and it threw, or it brought a response.
ForwardFailed(p) == reply[p].threw
ForwardSucceeded(p) == reply[p] # NoReply /\ ~reply[p].threw

\* The call has left the handler, with a response or with an exception.
Completed(p) == pc[p] \in {"done", "fault"}

\* Entry i of the appends was sent as new_log to every observer that was
\* registered before it and has stayed registered.
Broadcast(i) ==
    \A s \in Sockets : (StaysRegistered(s) /\ snapAt[s].len < i) =>
        Count(NewLog(appended[i].log), inbox[s]) = 1

\* C11: a call whose forward failed has, once it has completed, exactly one
\* entry with id requestId-error, of direction response and status 500,
\* broadcast to the observers; the caller got a 500 response with that
\* entry's body; and there is no entry with id requestId-response.
C11_ForwardFailure ==
    \A p \in Calls : (ForwardFailed(p) /\ Completed(p)) =>
        /\ Count(requestId[p] \o "-error", IdsAppended) = 1
        /\ Count(requestId[p] \o "-response", IdsAppended) = 0
        /\ \A i \in DOMAIN appended :
              appended[i].log.id = requestId[p] \o "-error" =>
                  /\ appended[i].log.direction = "response"
                  /\ appended[i].log.status = 500
                  /\ Broadcast(i)
                  /\ response[p] = [kind |-> "http", status |-> 500,
                                    body |-> appended[i].log.body]

\* C12: a call whose forward succeeded has, once it has completed, exactly
\* one entry with id requestId-response, with the target's status, broadcast
\* to the observers; the caller got the target's status and body; and there
\* is no entry with id requestId-error.
C12_ForwardSuccess ==
    \A p \in Calls : (ForwardSucceeded(p) /\ Completed(p)) =>
        /\ Count(requestId[p] \o "-response", IdsAppended) = 1
        /\ Count(requestId[p] \o "-error", IdsAppended) = 0
        /\ \A i \in DOMAIN appended :
              appended[i].log.id = requestId[p] \o "-response" =>
                  /\ appended[i].log.status = reply[p].status
                  /\ Broadcast(i)
        /\ response[p] = [kind |-> "http", status |-> reply[p].status,
                          body |-> reply[p].body]

\* C13: when the last setTargetUrl succeeded, then, whatever was set before
\* it and however many times the actor has been suspended and revived since,
\* getTargetUrl returns the address of that call and storage holds it.
C13_TargetSurvives ==
    (lastSet # NoResponse /\ lastSet.result.success) =>
        /\ getTargetUrl = lastSet.address
        /\ stored = lastSet.address

\* A call read one target at the gate, another address was set after it,
\* and the actor has been revived twice since.
C13_Witness ==
    /\ nSets = 2 /\ lastSet.rev = 0 /\ nRevivals = 2
    /\ lastSet.result.success
    /\ target[1] \in WellFormedAbsolute /\ target[1] # lastSet.address
    /\ targetUrl = lastSet.address

\* A step in which the actor was suspended and constructed again.
ReviveStep == nRevivals' = nRevivals + 1

\* C14: the construction that revives the actor leaves in the registry
\* exactly the connections the runtime preserved, each with the
\* interceptorId and connectedAt it was registered with (connections are
\* numbered in the order of their registration, and so are the readings of
\* the clock); it is one step, so no broadcast precedes it; and a
\* connection that is open, revived or not, has received as new_log every
\* entry appended since its registration, with one initial_logs only.
C14_RegistryRebuilt ==
    /\ [][ ReviveStep =>
             /\ MapKeys(monitors') = getWebSockets
             /\ Len(monitors') = Cardinality(getWebSockets)
             /\ \A k \in DOMAIN monitors' :
                   monitors'[k].session =
                       [interceptorId |-> InterceptorId,
                        connectedAt |-> monitors'[k].socket]
         ]_vars
    /\ [](\A s \in Sockets : wsState[s] = "open" =>
            /\ s \in MapKeys(monitors)
            /\ Count("initial_logs", [k \in DOMAIN inbox[s] |-> inbox[s][k].type]) = 1
            /\ \A i \in DOMAIN appended : i > snapAt[s].len =>
                  Count(NewLog(appended[i].log), inbox[s]) = 1)

\* Two observers registered before a revival, and an entry appended after
\* the revival reached both as new_log.
C14_Witness ==
    /\ nRevivals >= 1
    /\ \A s \in Sockets :
          /\ wsState[s] = "open" /\ snapAt[s].rev = 0
          /\ Len(inbox[s]) = 2
          /\ inbox[s][2].type = "new_log"
    /\ Len(appended) = 1 /\ appended[1].rev >= 1

\* The types of the messages an observer has received, in order.
TypesOf(s) == [k \in DOMAIN inbox[s] |-> inbox[s][k].type]

C16_LogBeforeForward ==
    /\ [](\A o \in outbound :
            /\ Count(requestId[o.call], IdsAppended) = 1
            /\ \A i \in DOMAIN appended :
                  appended[i].log.id = requestId[o.call] =>
                      /\ appended[i].log = requestLog(o.call)
                      /\ Broadcast(i))
    /\ [][ \A p \in Calls :
             (pc[p] = "logging" /\ pc'[p] = "forwarding") =>
                 /\ AppendStep
                 /\ appended'[Len(appended')].log = requestLog(p)
                 /\ \A o \in outbound : o.call # p
                 /\ \E o \in outbound' : o.call = p
         ]_vars
    /\ [](\A p \in Calls : pc[p] = "logging" =>
            ENABLED (LogRequestEntry(p, "ok") /\ pc'[p] = "forwarding"))

\* The request of a call was issued after its entry was broadcast to two
\* observers, the send to one of which failed.
C16_Witness ==
    \E s1, s2 \in Sockets :
        /\ pc[1] = "forwarding" /\ outbound # {}
        /\ Len(appended) = 1 /\ snapAt[s1].len = 0 /\ snapAt[s2].len = 0
        /\ wsState[s1] = "closing" /\ s1 \in dropped /\ Len(inbox[s1]) = 1
        /\ StaysRegistered(s2) /\ inbox[s2][2] = NewLog(requestLog(1))

\* The calls that have drawn a requestId.
Started == { p \in Calls : requestId[p] # "" }

\* The entries call p builds, at the point the handler has reached.
EntriesOf(p) ==
    {requestLog(p)}
    \cup (IF ForwardSucceeded(p) THEN {responseLog(p)} ELSE {})
    \cup (IF pc[p] \in {"caught", "done", "fault"} THEN {errorLog(p)} ELSE {})

\* C17: with calls running concurrently, every entry of the ledger is an
\* entry given to addLog, unchanged; every entry given to addLog is the
\* request, response or error entry of exactly one call, as that call built
\* it from its own requestId and its own reply; and a call's response or
\* error entry comes after the call's own request entry.
C17_NoCrossTalk ==
    /\ \A k \in DOMAIN logs : \E i \in DOMAIN appended : logs[k] = appended[i].log
    /\ \A p, q \in Started : p # q => requestId[p] # requestId[q]
    /\ \A i \in DOMAIN appended :
          /\ Cardinality({ p \in Started : appended[i].log \in EntriesOf(p) }) = 1
          /\ \A p \in Started :
                appended[i].log.id \in {requestId[p] \o "-response",
                                         requestId[p] \o "-error"} =>
                    /\ appended[i].log \in EntriesOf(p)
                    /\ \E j \in 1..(i - 1) : appended[j].log = requestLog(p)

\* Two calls whose steps interleaved: both request entries, then the
\* response of the second call, then the error of the first.
C17_Witness ==
    /\ pc[1] = "done" /\ pc[2] = "done"
    /\ IdsAppended = << "uuid1", "uuid2", "uuid2-response", "uuid1-error" >>
    /\ Len(logs) = Cap

\* The target, the ledger and the registry of a session, by its id.
SessionState(id) ==
    IF id = InterceptorId
    THEN [targetUrl |-> targetUrl, stored |-> stored, logs |-> logs,
          monitors |-> monitors]
    ELSE others[id]

\* A step of an operation addressed to the session of that id.
AddressedTo(id) ==
    \/ \E a \in TargetInputs : Create(id, a)
    \/ /\ id \in OtherIds
       /\ OtherClear(id) \/ OtherProxy(id) \/ OtherObserve(id)
    \/ /\ id = InterceptorId
       /\ \/ clearLogs
          \/ handleWebSocketUpgrade
          \/ \E p \in Calls : Gate(p)
          \/ \E p \in Calls, o \in RpcOutcomes :
                \/ LogRequestEntry(p, o)
                \/ LogResponseEntry(p, o)
                \/ LogErrorEntry(p, o)

\* C18: a creation that drew the id of a session, and a proxy, observe or
\* clear operation addressed to a session, leave the target (in memory and
\* stored), the ledger and the registry of every other session as they
\* were.
C18_SessionsIndependent ==
    [][ \A id \in AllIds : AddressedTo(id) =>
            \A other \in AllIds \ {id} :
                SessionState(other)' = SessionState(other)
      ]_vars

\* Three sessions with a target, an entry and an observer each, the
\* targets of two of which differ.
C18_Witness ==
    /\ \A id \in AllIds :
          /\ ~Falsy(SessionState(id).targetUrl)
          /\ Len(SessionState(id).logs) >= 1
          /\ Len(SessionState(id).monitors) >= 1
    /\ \E id \in OtherIds : others[id].targetUrl # targetUrl

\* C19: a setTargetUrl with a well-formed address returns success, whatever
\* the target was, and leaves that address in memory and in storage; when
\* the address was already the target in both, the call changes nothing.
C19_WellFormedSucceeds ==
    [][ (SetStep /\ lastSet'.address \in WellFormedAbsolute) =>
            /\ lastSet'.result.success
            /\ targetUrl' = lastSet'.address
            /\ stored' = lastSet'.address
            /\ (targetUrl = lastSet'.address /\ stored = lastSet'.address) =>
                  UNCHANGED << doVars, stored >>
      ]_vars

\* C20: since the actor was last constructed, getTargetUrl and getInfo
\* together have read the target from storage at most once.
C20_LoadedOnce == loads <= 1

\* C21: a connection is in the registry exactly from its registration
\* until its close event, its error event or its first failed send: it is
\* registered while none of the three has happened and not after.
C21_RegistryLifetime ==
    \A s \in Sockets :
        s \in MapKeys(monitors) <=>
            (wsState[s] \in {"open", "closing", "erroring"} /\ s \notin dropped)

\* A step in which webSocketClose ran for the socket.
CloseStep(ws) == wsState[ws] = "closing" /\ wsState'[ws] = "closed"

\* C22: webSocketClose takes its connection, and no other, out of the
\* registry, the others keeping their order and their metadata; for a
\* connection that is not in the registry it leaves the registry as it is,
\* and in both cases the handler runs to its end.
C22_UnregisterIdempotent ==
    [][ \A ws \in Sockets : CloseStep(ws) =>
            /\ monitors' = SelectSeq(monitors, LAMBDA m : m.socket # ws)
            /\ ws \notin MapKeys(monitors) => monitors' = monitors
            /\ found'[ws] \in {"registered", "absent"}
      ]_vars

\* A broadcast dropped a connection whose send failed, webSocketClose then
\* ran for it and found it absent, and the other connection is still
\* registered.
C22_Witness ==
    \E s1, s2 \in Sockets :
        /\ found[s1] = "absent" /\ wsState[s1] = "closed"
        /\ StaysRegistered(s2) /\ wsState[s2] = "open"
        /\ snapAt[s2].len = 0 /\ Len(appended) = 1

\* A step in which webSocketMessage handled a message.
MessageStep == Len(heard') = Len(heard) + 1

\* C23: the handling of a message from an observer, parseable or not,
\* changes neither the ledger, nor the registry, nor the target in memory
\* or in storage, delivers nothing to any observer, and leaves every
\* connection, the sender's included, in the state it was in.
C23_MessageIsInert ==
    [][ MessageStep =>
            /\ UNCHANGED << logs, monitors, targetUrl, stored >>
            /\ inbox' = inbox
            /\ wsState' = wsState
            /\ wsState[heard'[Len(heard')].socket] = "open"
      ]_vars

\* An observer sent text that is not JSON and then JSON, and is still
\* connected and registered, having received nothing but its initial_logs.
C23_Witness ==
    \E s \in Sockets :
        /\ Len(heard) = 2
        /\ heard[1].socket = s /\ heard[2].socket = s
        /\ JSONParseThrows(heard[1].message.data)
        /\ ~JSONParseThrows(heard[2].message.data)
        /\ wsState[s] = "open" /\ StaysRegistered(s)
        /\ Len(inbox[s]) = 1

CallsCompleted == \A p \in Calls : pc[p] = "received" \/ Completed(p)

\* Observer early registered before any entry was appended and has stayed
\* registered; observer late took its snapshot after the last append.
Early(s) == wsState[s] # "none" /\ snapAt[s].len = 0 /\ StaysRegistered(s)
Late(s) == wsState[s] # "none" /\ snapAt[s].len = Len(appended)

PassedGate(p) == pc[p] # "received" /\ requestId[p] # ""

\* C26: every call that passed the gate eventually leaves the handler with
\* a response, even when the target never answers the forwarded request.
C26_EventuallyDone ==
    \A p \in Calls : PassedGate(p) ~> (pc[p] = "done")

\* C27: once the handler has built the request entry and the request for
\* the target from an inbound request that carries a body (one that reads
\* as text), whatever its method, the body of the entry is the body sent to
\* the target, and the method and headers sent are the inbound ones.
C27_BodyLoggedAsForwarded ==
    ( /\ proxyRequest # NoRequest
      /\ request.body # NoBody /\ request.body.readable )
    => /\ loggedRequest.body = proxyRequest.body
       /\ proxyRequest.method = request.method
       /\ proxyRequest.headers = request.headers

\* The target of the session of that id.
TargetOf(id) == IF id = InterceptorId THEN targetUrl ELSE others[id].targetUrl

\* C28: the target of a session is an address for which the validation
\* route has answered valid: true, whichever client created the session.
C28_OnlyValidatedTargets ==
    \A id \in AllIds : TargetOf(id) # Null => TargetOf(id) \in validated

IsResponse(k) == viewLogs[k].direction = "response"
IsRequest(k) == viewLogs[k].direction = "request"

\* C29 as stated: when entry k of the page's list is a response and, of the
\* groups made of the entries before it, some have no response yet, the
\* most recent of those groups has entry k as its response.
C29_PairsMostRecentOpenAsStated ==
    \A k \in DOMAIN viewLogs : IsResponse(k) =>
        LET before == groupedLogs(SubSeq(viewLogs, 1, k - 1))
            after == groupedLogs(SubSeq(viewLogs, 1, k))
            open == { g \in DOMAIN before : before[g].response = NoLog }
        IN open # {} =>
              after[CHOOSE g \in open : \A h \in open : h <= g].response = viewLogs[k]

\* Entry k begins a group: it is a request, or a response that does not
\* come directly after a request.
Begins(k) == IsRequest(k) \/ k = 1 \/ ~IsRequest(k - 1)

\* The number of groups begun by the entries up to k.
GroupOf(k) == Cardinality({ j \in 1..k : Begins(j) })

\* C29: the groups are, in list order, one per request entry and one per
\* response entry that does not come directly after a request entry.  A
\* request entry's group has as response the entry that directly follows
\* the request when that entry is a response, and none otherwise, even when
\* a later response exists; a response entry that is first or follows a
\* response is request and response of its own group, even when an earlier
\* request has no response yet.
C29_PairsDirectlyPreceding ==
    /\ Len(groups) = GroupOf(Len(viewLogs))
    /\ \A k \in DOMAIN viewLogs :
          IF IsRequest(k)
          THEN groups[GroupOf(k)] =
                   [request |-> viewLogs[k],
                    response |-> IF k < Len(viewLogs) /\ IsResponse(k + 1)
                                 THEN viewLogs[k + 1] ELSE NoLog]
          ELSE IF Begins(k)
               THEN groups[GroupOf(k)] =
                        [request |-> viewLogs[k], response |-> viewLogs[k]]
               ELSE groups[GroupOf(k)].response = viewLogs[k]

\* The page's list is request, request, response, error: the first
\* response went to the second request, the first request has no response
\* and the error is a group by itself.
C29_Witness ==
    /\ Len(viewLogs) = 4
    /\ IsRequest(1) /\ IsRequest(2) /\ IsResponse(3) /\ IsResponse(4)
    /\ viewLogs[1] # viewLogs[2] /\ viewLogs[3] # viewLogs[4]
    /\ Len(groups) = 3
    /\ groups[1].response = NoLog
    /\ groups[2] = [request |-> viewLogs[2], response |-> viewLogs[3]]
    /\ groups[3] = [request |-> viewLogs[4], response |-> viewLogs[4]]

\* C30: in the grouping of the list of every observer's page, the request
\* of each group is an entry of direction request, the id of a group's
\* response is the id of its request followed by -response or -error, and
\* each response entry of the list is the response of exactly one group.
C30_GroupsAreExchanges ==
    \A s \in Sockets :
        LET list == ViewerLogs(s)
            grouped == groupedLogs(list)
        IN /\ \A g \in DOMAIN grouped :
                 /\ grouped[g].request.direction = "request"
                 /\ grouped[g].response # NoLog =>
                        grouped[g].response.id \in
                            { grouped[g].request.id \o "-response",
                              grouped[g].request.id \o "-error" }
           /\ \A k \in DOMAIN list : list[k].direction = "response" =>
                 Cardinality({ g \in DOMAIN grouped :
                                   grouped[g].response = list[k] }) = 1

\* C31: a setTargetUrl that returns success: false leaves the target in
\* memory as it was, and a target in memory that is not null is always the
\* stored target, also after a storage.put that rejected.
C31_FailureChangesNothing ==
    /\ [][ (SetStep /\ ~lastSet'.result.success) => targetUrl' = targetUrl ]_vars
    /\ [](targetUrl # Null => targetUrl = stored)

C33_DroppedStaysOut ==
    \A s \in dropped : s \notin MapKeys(monitors)

\* C34: every connection in the registry has been sent initial_logs, as the
\* first message sent to it.
C34_RegisteredWereReplayed ==
    \A s \in MapKeys(monitors) :
        inbox[s] # << >> /\ inbox[s][1].type = "initial_logs"

\* C35: the list of the page of an observer that is connected and has
\* stayed registered, once the page has handled every message sent to its
\* connection, is the ledger.
C35_ViewerHoldsLedger ==
    \A s \in Sockets :
        (wsState[s] = "open" /\ StaysRegistered(s)) => ViewerLogs(s) = logs

\* C36: the page has at most one open connection at any time, and once the
\* component has unmounted it has no open connection.
C36_OneConnection ==
    /\ Cardinality({ c \in Conns : connState[c] = "open" }) <= 1
    /\ page = "unmounted" => \A c \in Conns : connState[c] # "open"

\* The entry is a response or error entry, and the id of its request entry.
IsReply(log) == log.direction = "response"
RepliesTo(log, req) ==
    /\ req.direction = "request"
    /\ log.id \in {req.id \o "-response", req.id \o "-error"}

\* C37 as stated: every response or error entry of the ledger has the
\* request entry of its call at a lower index of the ledger.
C37_RequestPrecedesAsStated ==
    \A k \in DOMAIN logs : IsReply(logs[k]) =>
        \E j \in 1..(k - 1) : RepliesTo(logs[k], logs[j])

\* C37: every response or error entry was appended after the request entry
\* of its call; in the ledger the request entry stands at a lower index
\* than it, unless clearLogs or the eviction at capacity has removed the
\* request entry since it was appended.
C37_RequestPrecedes ==
    /\ \A i \in DOMAIN appended : IsReply(appended[i].log) =>
          \E j \in 1..(i - 1) : RepliesTo(appended[i].log, appended[j].log)
    /\ \A k \in DOMAIN logs : IsReply(logs[k]) =>
          \A j \in DOMAIN appended :
              ( /\ RepliesTo(logs[k], appended[j].log)
                /\ j > base
                /\ j > Len(appended) - Cap )
              => \E l \in 1..(k - 1) : logs[l] = appended[j].log

\* Two calls in flight and more appends than the capacity: the ledger holds
\* the second call's request entry and, after it, that call's response,
\* while the first call's request entry has been evicted and the first call
\* has not logged its response yet.
C37_Witness ==
    /\ Len(appended) - base > Cap
    /\ Len(logs) = 2
    /\ IsReply(logs[2]) /\ RepliesTo(logs[2], logs[1])
    /\ logs[1] = requestLog(2)
    /\ pc[1] \in {"forwarding", "responding", "caught"}

====
